---- MODULE Spec2Model ----
(***************************************************************************)
(* Model of the segment scheduling and merge engine of neat-stt:           *)
(*   configuration/environment.py   chunk-length bounds                    *)
(*   audio/stt.py                   SpeechToText.transcribe and            *)
(*                                  _process_diarization_segments          *)
(*   audio/transcription.py         TranscriptionProcessor                 *)
(*   audio/utils.py                 merge_segments,                        *)
(*                                  format_transcription_output            *)
(*                                                                         *)
(* Time.  A diarization turn carries float seconds.  The model counts a    *)
(* turn's start and end in ticks, TicksPerMs ticks to the millisecond, so  *)
(* that int(turn.start * 1000) is a truncating division.  Chunk metadata   *)
(* and transcribed segments carry start_ms / 1000 in the code; the model   *)
(* keeps these in milliseconds.                                            *)
(***************************************************************************)
EXTENDS Integers, Sequences, FiniteSets, TLC

\* ------------------------------------------------------------------ bounds
TicksPerMs == 2
MaxTick == 6
MaxTurns == 1
MaxBatch == 2
MaxEnv == 3
MaxSegTime == 2
MaxSegments == 2
MaxGap == 1
MaxFlushes == 2
MaxQueue == 2

Speakers == {"A", "B"}

\* ----------------------------------------------------------------- helpers
Min2(a, b) == IF a <= b THEN a ELSE b

Last(s) == s[Len(s)]

RECURSIVE Flatten(_)
Flatten(ss) == IF ss = <<>> THEN <<>> ELSE Head(ss) \o Flatten(Tail(ss))

\* ------------------------------------------------------------------- state
VARIABLES
  pc,                    \* position of the program
  envMax, envMin,        \* os.getenv("MAX_CHUNK_LENGTH"), ("MIN_CHUNK_LENGTH")
  MAX_CHUNK_LENGTH_MS,   \* environment.py module constants
  MIN_CHUNK_LENGTH_MS,
  batch_size,            \* SpeechToText.batch_size
  diarization_segments,  \* the turns handed to the scheduler
  idx,                   \* position of the for loop over the turns
  current_segment,       \* <<>> (None) or <<PendingSegment>>
  batch_metadata,        \* chunks of the batch being filled
  todo,                  \* chunks the current loop iteration still enqueues
  transcribed_segments,  \* results collected so far
  enqueued,              \* history: every chunk appended to a batch, in order
  submitted,             \* history: every batch handed to the adapter
  error,                 \* the exception that left the pipeline, if any
  max_gap,               \* merge_segments parameter
  merged_segments,       \* result of merge_segments
  text_output            \* result of format_transcription_output

\* The live transcription loop and the controller around it.
VARIABLES
  live_pc,               \* position of live_transcribe / transcribe_live
  chunk_duration_ms,     \* transcribe_live parameter
  buffer,                \* the recorder chunks buffered, as sample counts
  buffer_duration_ms,    \* the duration the loop holds for the buffer
  live_segments,         \* diarization turns of the buffer being flushed
  recorder,              \* "none", "recording" or "stopped"
  live_error,            \* the exception that left transcribe_live, if any
  live_events,           \* SSE events sent on the live stream
  received,              \* history: samples taken from the recorder
  flushes,               \* history: buffers flushed
  calls,                 \* history: segments handed to transcribe_chunk
  stop_pc,               \* position of stop_live_transcribe
  stop_response,         \* what stop_live_transcribe answered
  is_running             \* SpeechToText.is_running, <<>> while not set

\* The recorder: the capture callback, its queue and the consumer's read.
VARIABLES
  is_recording,          \* AudioRecorder.is_recording
  audio_queue,           \* AudioRecorder.audio_queue, oldest first
  callback,              \* the chunk _audio_callback holds, <<>> when idle
  captured,              \* history: chunks the callback accepted
  dropped,               \* history: the callback has discarded a chunk
  delivered,             \* history: chunks get_audio_chunk has returned
  chunk,                 \* the loop's local: <<>> is None
  stop_calls             \* history: calls of recorder.stop_recording

captureVars ==
  <<is_recording, audio_queue, callback, captured, dropped, delivered,
    chunk, stop_calls>>

pipelineVars ==
  <<pc, envMax, envMin, MAX_CHUNK_LENGTH_MS, MIN_CHUNK_LENGTH_MS,
    batch_size, diarization_segments, idx, current_segment,
    batch_metadata, todo, transcribed_segments, enqueued, submitted,
    error, max_gap, merged_segments, text_output>>

serviceVars ==
  <<live_pc, chunk_duration_ms, buffer, buffer_duration_ms, live_segments,
    recorder, live_error, live_events, received, flushes, calls,
    stop_pc, stop_response, is_running, captureVars>>

\* The file endpoint: the event generator and its transcription thread.
VARIABLES
  stream_pc,             \* position of transcribe_audio.event_generator
  stream_events,         \* SSE events sent on the file stream
  queue,                 \* asyncio.Queue between thread and generator
  producer_pc,           \* position of process_transcription
  produce_left,          \* results the thread has still to put
  producer_error,        \* the exception transcription_task ended with
  stream_error,          \* the exception caught by the generator
  stream_escaped         \* the exception that left the generator

streamVars ==
  <<stream_pc, stream_events, queue, producer_pc, produce_left,
    producer_error, stream_error, stream_escaped>>

vars == <<pipelineVars, serviceVars, streamVars>>

\* No file has been uploaded.
StreamIdle ==
  /\ stream_pc = "idle"
  /\ stream_events = <<>>
  /\ queue = <<>>
  /\ producer_pc = "none"
  /\ produce_left = 0
  /\ producer_error = "none"
  /\ stream_error = "none"
  /\ stream_escaped = "none"

\* No live stream has been opened and no stop has been asked for.
ServiceIdle ==
  /\ live_pc = "idle"
  /\ chunk_duration_ms = 0
  /\ buffer = <<>>
  /\ buffer_duration_ms = 0
  /\ live_segments = <<>>
  /\ recorder = "none"
  /\ live_error = "none"
  /\ live_events = <<>>
  /\ received = 0
  /\ flushes = 0
  /\ calls = <<>>
  /\ stop_pc = "none"
  /\ stop_response = "none"
  /\ is_running = <<>>
  /\ is_recording = FALSE
  /\ audio_queue = <<>>
  /\ callback = <<>>
  /\ captured = 0
  /\ dropped = FALSE
  /\ delivered = 0
  /\ chunk = <<>>
  /\ stop_calls = 0

\* ----------------------------------------------------- configuration input
\* An environment variable is unset (<<>>) or holds an integer (<<v>>).
EnvValues == {<<>>} \cup {<<v>> : v \in (-1)..MaxEnv}

\* int(x) if x else 0
EnvInt(v) == IF v = <<>> THEN 0 ELSE v[1]

\* --------------------------------------------------------- diarization input
Turn(s, e, spk) == [start |-> s, end |-> e, speaker |-> spk]

\* Turns of the bounded inputs: non-empty segments on the tick grid.
Turns ==
  {Turn(se[1], se[2], spk) :
     se \in {x \in (0..MaxTick) \X (0..MaxTick) : x[1] < x[2]}, spk \in Speakers}

TurnBefore(a, b) ==
  \/ a.start < b.start
  \/ a.start = b.start /\ a.end <= b.end

\* itertracks yields non-empty segments in (start, end) order.
IsTurnList(ts) ==
  /\ \A i \in 1..Len(ts) : ts[i].start < ts[i].end
  /\ \A i \in 1..(Len(ts) - 1) : TurnBefore(ts[i], ts[i + 1])

RECURSIVE TurnListsFrom(_, _, _)
TurnListsFrom(prefixes, turns, n) ==
  IF n = 0 THEN prefixes
  ELSE prefixes \cup
       TurnListsFrom({q \in {Append(p, t) : p \in prefixes, t \in turns} :
                        IsTurnList(q)}, turns, n - 1)

\* Turns that start and end on a whole millisecond.
WholeMsTurns ==
  {t \in Turns : t.start % TicksPerMs = 0 /\ t.end % TicksPerMs = 0}

\* Up to MaxTurns turns anywhere on the tick grid, and one turn more when
\* every turn lies on whole milliseconds.
TurnLists ==
  TurnListsFrom({<<>>}, Turns, MaxTurns)
    \cup TurnListsFrom({<<>>}, WholeMsTurns, MaxTurns + 1)

\* A turn of three milliseconds overlapped by two one-millisecond turns of
\* another speaker, the second following the first without a gap.
OverlapTurns ==
  << Turn(0, 3 * TicksPerMs, "B"),
     Turn(TicksPerMs, 2 * TicksPerMs, "A"),
     Turn(2 * TicksPerMs, 3 * TicksPerMs, "A") >>

\* Two adjoining one-millisecond turns of one speaker, then a
\* one-millisecond turn of another.
AccumulateTurns ==
  << Turn(0, TicksPerMs, "A"),
     Turn(TicksPerMs, 2 * TicksPerMs, "A"),
     Turn(2 * TicksPerMs, 3 * TicksPerMs, "B") >>

\* A turn that starts and ends within one millisecond, then a turn of one
\* millisecond of another speaker.
TruncatedTurns ==
  << Turn(0, 1, "A"), Turn(TicksPerMs, 2 * TicksPerMs, "B") >>

\* Seconds to ticks, for the turns written out in seconds * 10.
Tenths(d) == d * 100 * TicksPerMs

\* [(0,1,A), (1,1.3,A), (1.3,2.0,B)]
ScenarioMergeTurns ==
  << Turn(Tenths(0), Tenths(10), "A"),
     Turn(Tenths(10), Tenths(13), "A"),
     Turn(Tenths(13), Tenths(20), "B") >>

\* [(0, 25.0, A)]
ScenarioLongTurns == << Turn(Tenths(0), Tenths(250), "A") >>

\* min=500ms, max=10000ms
ScenarioBounds == [min |-> 500, max |-> 10000]

\* max_gap: float = 2.0, in milliseconds
DefaultMaxGap == 2000

\* ------------------------------------------------ transcription adapter text
\* A text is a sequence of characters; " " is whitespace.
AdapterTexts == { <<" ", "w">> }

\* ---------------------------------------------------- transcription adapter
\* Variant: the results come back in reverse input order.
TranscribeChunksBatchReversed(metadata, texts) ==
  [i \in 1..Len(metadata) |->
     [start |-> metadata[Len(metadata) + 1 - i].start,
      end |-> metadata[Len(metadata) + 1 - i].end,
      text |-> texts[i],
      speaker |-> metadata[Len(metadata) + 1 - i].speaker]]

\* TranscriptionProcessor.transcribe_chunks_batch, the value returned on
\* success: one segment per metadata entry, in input order.
TranscribeChunksBatch(metadata, texts) ==
  [i \in 1..Len(metadata) |->
     [start |-> metadata[i].start, end |-> metadata[i].end,
      text |-> texts[i], speaker |-> metadata[i].speaker]]

\* The texts the model can decode for a batch.
BatchTexts(metadata) == [1..Len(metadata) -> AdapterTexts]

\* "if not chunks or not metadata: raise ValueError", re-raised as
\* TranscriptionError like every other exception of the call.
AdapterRejects(metadata) == metadata = <<>>

\* ----------------------------------------------------------------- scheduler
\* int(turn.start * 1000)
ToMs(t) == t \div TicksPerMs

max_chunk_length == MAX_CHUNK_LENGTH_MS
min_chunk_length == MIN_CHUNK_LENGTH_MS

Chunk(s, e, spk) == [start |-> s, end |-> e, speaker |-> spk]

NewSegment(s, e, d, spk) ==
  [start_ms |-> s, end_ms |-> e, duration |-> d, speaker |-> spk]

\* An append to the batch: the metadata the code appends, with where it
\* comes from (a flushed pending segment, a whole turn, a window of a split
\* turn) and the duration the scheduler holds for it.
Item(meta, origin, duration) ==
  [meta |-> meta, origin |-> origin, duration |-> duration]

\* batch_metadata.append for the pending segment
SegmentChunk(cur) ==
  Item(Chunk(cur.start_ms, cur.end_ms, cur.speaker), "pending", cur.duration)

\* for chunk_start in range(start_ms, end_ms, max_chunk_length):
\*   chunk_end = min(chunk_start + max_chunk_length, end_ms)
\* A negative step over start_ms < end_ms yields nothing.
RECURSIVE SplitLong(_, _, _, _)
SplitLong(chunk_start, end_ms, step, spk) ==
  IF step <= 0 \/ chunk_start >= end_ms THEN <<>>
  ELSE LET chunk_end == Min2(chunk_start + step, end_ms)
       IN  <<Item(Chunk(chunk_start, chunk_end, spk), "split",
                  chunk_end - chunk_start)>>
           \o SplitLong(chunk_start + step, end_ms, step, spk)

\* Variant: a short turn of another speaker flushes the pending segment
\* whatever its duration.
ShortTurnAlwaysFlushes(cur, start_ms, end_ms, duration, spk) ==
  IF cur # <<>> /\ cur[1].speaker = spk
  THEN [current |-> <<[cur[1] EXCEPT !.end_ms = end_ms,
                                     !.duration = @ + duration]>>,
        chunks |-> <<>>, accumulated |-> TRUE]
  ELSE IF cur # <<>>
  THEN [current |-> <<NewSegment(start_ms, end_ms, duration, spk)>>,
        chunks |-> <<SegmentChunk(cur[1])>>, accumulated |-> FALSE]
  ELSE [current |-> <<NewSegment(start_ms, end_ms, duration, spk)>>,
        chunks |-> <<>>, accumulated |-> FALSE]

\* Variant: a short turn is added to the pending segment of any speaker.
ShortTurnAnySpeaker(cur, start_ms, end_ms, duration, spk) ==
  IF cur # <<>>
  THEN [current |-> <<[cur[1] EXCEPT !.end_ms = end_ms,
                                     !.duration = @ + duration]>>,
        chunks |-> <<>>, accumulated |-> TRUE]
  ELSE [current |-> <<NewSegment(start_ms, end_ms, duration, spk)>>,
        chunks |-> <<>>, accumulated |-> FALSE]

\* duration < min_chunk_length
ShortTurn(cur, start_ms, end_ms, duration, spk) ==
  IF cur # <<>> /\ cur[1].speaker = spk
  THEN [current |-> <<[cur[1] EXCEPT !.end_ms = end_ms,
                                     !.duration = @ + duration]>>,
        chunks |-> <<>>, accumulated |-> TRUE]
  ELSE IF cur # <<>>
  THEN [current |-> <<NewSegment(start_ms, end_ms, duration, spk)>>,
        chunks |-> IF cur[1].duration >= min_chunk_length
                   THEN <<SegmentChunk(cur[1])>> ELSE <<>>,
        accumulated |-> FALSE]
  ELSE [current |-> <<NewSegment(start_ms, end_ms, duration, spk)>>,
        chunks |-> <<>>, accumulated |-> FALSE]

\* duration > max_chunk_length
LongTurn(cur, start_ms, end_ms, spk) ==
  [current |-> <<>>,
   chunks |-> (IF cur # <<>> THEN <<SegmentChunk(cur[1])>> ELSE <<>>)
              \o SplitLong(start_ms, end_ms, max_chunk_length, spk),
   accumulated |-> FALSE]

\* Variant: a normal turn discards the pending segment instead of flushing it.
NormalTurnDropsPending(cur, start_ms, end_ms, duration, spk) ==
  [current |-> <<>>,
   chunks |-> <<Item(Chunk(start_ms, end_ms, spk), "turn", duration)>>,
   accumulated |-> FALSE]

\* normal length segment
NormalTurn(cur, start_ms, end_ms, duration, spk) ==
  [current |-> <<>>,
   chunks |-> (IF cur # <<>> THEN <<SegmentChunk(cur[1])>> ELSE <<>>)
              \o <<Item(Chunk(start_ms, end_ms, spk), "turn", duration)>>,
   accumulated |-> FALSE]

\* Variant: a turn of exactly min_chunk_length counts as short.
HandleTurnMinExclusive(cur, turn) ==
  LET start_ms == ToMs(turn.start)
      end_ms   == ToMs(turn.end)
      duration == end_ms - start_ms
  IN  IF duration <= min_chunk_length
      THEN ShortTurn(cur, start_ms, end_ms, duration, turn.speaker)
      ELSE IF duration > max_chunk_length
      THEN LongTurn(cur, start_ms, end_ms, turn.speaker)
      ELSE NormalTurn(cur, start_ms, end_ms, duration, turn.speaker)

\* What one iteration of the loop does with the turn: the new pending
\* segment, the chunks it appends to the batch, in order, and whether the
\* turn was added to the pending segment (the branch of stt.py:139-141).
HandleTurn(cur, turn) ==
  LET start_ms == ToMs(turn.start)
      end_ms   == ToMs(turn.end)
      duration == end_ms - start_ms
  IN  IF duration < min_chunk_length
      THEN ShortTurn(cur, start_ms, end_ms, duration, turn.speaker)
      ELSE IF duration > max_chunk_length
      THEN LongTurn(cur, start_ms, end_ms, turn.speaker)
      ELSE NormalTurn(cur, start_ms, end_ms, duration, turn.speaker)

\* ------------------------------------------------------------- text helpers
IsSpace(c) == c = " "

RECURSIVE LStrip(_)
LStrip(t) == IF t # <<>> /\ IsSpace(Head(t)) THEN LStrip(Tail(t)) ELSE t

RECURSIVE RStrip(_)
RStrip(t) ==
  IF t # <<>> /\ IsSpace(Last(t)) THEN RStrip(SubSeq(t, 1, Len(t) - 1)) ELSE t

\* str.strip()
Strip(t) == RStrip(LStrip(t))

\* " ".join(text.split()) on a stripped text: runs of whitespace become one.
RECURSIVE Collapse(_)
Collapse(t) ==
  IF Len(t) <= 1 THEN t
  ELSE IF IsSpace(t[1]) /\ IsSpace(t[2]) THEN Collapse(Tail(t))
  ELSE <<t[1]>> \o Collapse(Tail(t))

\* ------------------------------------------------------------------- merger
\* Variant: the gap test is strict.
RECURSIVE MergeLoopStrictGap(_, _, _, _, _)
MergeLoopStrictGap(segments, i, current, merged, gap) ==
  IF i > Len(segments) THEN Append(merged, current)
  ELSE LET next_segment == segments[i]
       IN  IF /\ next_segment.speaker = current.speaker
              /\ next_segment.start - current.end < gap
           THEN MergeLoopStrictGap(segments, i + 1,
                          [current EXCEPT
                             !.end = next_segment.end,
                             !.text = Strip(current.text) \o <<" ">>
                                      \o Strip(next_segment.text)],
                          merged, gap)
           ELSE MergeLoopStrictGap(segments, i + 1, next_segment,
                          Append(merged, current), gap)

\* Variant: the speaker is not compared.
RECURSIVE MergeLoopAnySpeaker(_, _, _, _, _)
MergeLoopAnySpeaker(segments, i, current, merged, gap) ==
  IF i > Len(segments) THEN Append(merged, current)
  ELSE LET next_segment == segments[i]
       IN  IF next_segment.start - current.end <= gap
           THEN MergeLoopAnySpeaker(segments, i + 1,
                          [current EXCEPT
                             !.end = next_segment.end,
                             !.text = Strip(current.text) \o <<" ">>
                                      \o Strip(next_segment.text)],
                          merged, gap)
           ELSE MergeLoopAnySpeaker(segments, i + 1, next_segment,
                          Append(merged, current), gap)

\* the body of "for next_segment in segments[1:]"
RECURSIVE MergeLoop(_, _, _, _, _)
MergeLoop(segments, i, current, merged, gap) ==
  IF i > Len(segments) THEN Append(merged, current)
  ELSE LET next_segment == segments[i]
       IN  IF /\ next_segment.speaker = current.speaker
              /\ next_segment.start - current.end <= gap
           THEN MergeLoop(segments, i + 1,
                          [current EXCEPT
                             !.end = next_segment.end,
                             !.text = Strip(current.text) \o <<" ">>
                                      \o Strip(next_segment.text)],
                          merged, gap)
           ELSE MergeLoop(segments, i + 1, next_segment,
                          Append(merged, current), gap)

\* Variant: the loop starts at segments[0] instead of segments[1:].
merge_segmentsFromFirst(segments, gap) ==
  IF segments = <<>> THEN <<>>
  ELSE MergeLoop(segments, 1, segments[1], <<>>, gap)

merge_segments(segments, gap) ==
  IF segments = <<>> THEN <<>>
  ELSE MergeLoop(segments, 2, segments[1], <<>>, gap)

\* The same call on the objects of the argument list.  current names either
\* a private object (at = 0) or the at-th object of the argument, and an
\* item assignment on current writes to the object it names.
\* Variant: current is bound to the list's object itself.
copyAliases(k, seg) == [at |-> k, seg |-> seg]

\* dict.copy() of the k-th object of the list: a new object with its items
copy(k, seg) == [at |-> 0, seg |-> seg]

\* current["end"] = ...; current["text"] = ...
StoreItems(segments, current, val) ==
  IF current.at = 0 THEN segments
  ELSE [segments EXCEPT ![current.at] = val]

RECURSIVE MergeLoopOnObjects(_, _, _, _, _)
MergeLoopOnObjects(segments, i, current, merged, gap) ==
  IF i > Len(segments)
  THEN [merged |-> Append(merged, current.seg), segments |-> segments]
  ELSE LET next_segment == segments[i]
       IN  IF /\ next_segment.speaker = current.seg.speaker
              /\ next_segment.start - current.seg.end <= gap
           THEN LET val == [current.seg EXCEPT
                              !.end = next_segment.end,
                              !.text = Strip(current.seg.text) \o <<" ">>
                                       \o Strip(next_segment.text)]
                IN  MergeLoopOnObjects(StoreItems(segments, current, val),
                                       i + 1, [current EXCEPT !.seg = val],
                                       merged, gap)
           ELSE MergeLoopOnObjects(segments, i + 1, copy(i, next_segment),
                                   Append(merged, current.seg), gap)

\* The list returned and the argument list as the call leaves it.
merge_segments_call(segments, gap) ==
  IF segments = <<>> THEN [merged |-> <<>>, segments |-> segments]
  ELSE MergeLoopOnObjects(segments, 2, copy(1, segments[1]), <<>>, gap)

\* ------------------------------------------------------------------- sorting
\* list.sort(key=start) is stable: an element goes after every element whose
\* key is not greater.
\* Variant: an element goes before the elements with an equal key.
RECURSIVE InsertByStartBeforeTies(_, _)
InsertByStartBeforeTies(sorted, x) ==
  IF sorted = <<>> THEN <<x>>
  ELSE IF Head(sorted).start < x.start
  THEN <<Head(sorted)>> \o InsertByStartBeforeTies(Tail(sorted), x)
  ELSE <<x>> \o sorted

RECURSIVE InsertByStart(_, _)
InsertByStart(sorted, x) ==
  IF sorted = <<>> THEN <<x>>
  ELSE IF Head(sorted).start <= x.start
  THEN <<Head(sorted)>> \o InsertByStart(Tail(sorted), x)
  ELSE <<x>> \o sorted

RECURSIVE SortFrom(_, _, _)
SortFrom(s, i, acc) ==
  IF i > Len(s) THEN acc ELSE SortFrom(s, i + 1, InsertByStart(acc, s[i]))

SortByStart(s) == SortFrom(s, 1, <<>>)

\* ---------------------------------------------------------------- formatting
\* time.strftime("%H:%M:%S", time.gmtime(seconds)), seconds = ms / 1000
TimeStr(ms) ==
  LET sec == ms \div 1000
  IN  <<(sec \div 3600) % 24, (sec \div 60) % 60, sec % 60>>

\* Variant: a segment renders with the number of the label mapped last.
SpeakerNumberOfLast(speaker_map, label) == Len(speaker_map)

\* speaker_map as the list of labels in order of insertion; the label at
\* position k maps to "Speaker k".
SpeakerNumber(speaker_map, label) ==
  CHOOSE k \in 1..Len(speaker_map) : speaker_map[k] = label

RECURSIVE FormatLoop(_, _, _, _)
FormatLoop(segs, i, speaker_map, out) ==
  IF i > Len(segs) THEN out
  ELSE LET segment == segs[i]
           map2 == IF \E k \in 1..Len(speaker_map) :
                        speaker_map[k] = segment.speaker
                   THEN speaker_map
                   ELSE Append(speaker_map, segment.speaker)
           block == [start_time_str |-> TimeStr(segment.start),
                     end_time_str |-> TimeStr(segment.end),
                     speaker |-> SpeakerNumber(map2, segment.speaker),
                     text |-> Collapse(Strip(segment.text))]
       IN  FormatLoop(segs, i + 1, map2, Append(out, block))

\* The transcript as the list of its rendered blocks; "" is <<>>.
format_transcription_output(segs) == FormatLoop(segs, 1, <<>>, <<>>)

\* ------------------------------------------------------------------- inputs
\* The (MIN_CHUNK_LENGTH, MAX_CHUNK_LENGTH) settings of the environment.
EnvPairs ==
  (EnvValues \X EnvValues) \cup {<< <<ScenarioBounds.min>>, <<ScenarioBounds.max>> >>}

\* The turn lists diarization can hand to the scheduler.  The lists written
\* out in seconds are run under the bounds they are stated for.
TurnInputs ==
  TurnLists \cup {OverlapTurns, AccumulateTurns, TruncatedTurns} \cup
  (IF MIN_CHUNK_LENGTH_MS = ScenarioBounds.min /\ MAX_CHUNK_LENGTH_MS = ScenarioBounds.max
   THEN {ScenarioMergeTurns, ScenarioLongTurns} ELSE {})

\* ---------------------------------------------------------------------- Init
Init ==
  /\ pc = "boot"
  /\ \E p \in EnvPairs : envMin = p[1] /\ envMax = p[2]
  /\ batch_size \in 1..MaxBatch
  /\ MAX_CHUNK_LENGTH_MS = 0
  /\ MIN_CHUNK_LENGTH_MS = 0
  /\ diarization_segments = <<>>
  /\ idx = 1
  /\ current_segment = <<>>
  /\ batch_metadata = <<>>
  /\ todo = <<>>
  /\ transcribed_segments = <<>>
  /\ enqueued = <<>>
  /\ submitted = <<>>
  /\ error = "none"
  /\ max_gap = DefaultMaxGap
  /\ merged_segments = <<>>
  /\ text_output = <<>>
  /\ ServiceIdle
  /\ StreamIdle

\* ------------------------------------------------- hf_tts.py, unbatched loop
HfDefaultMax == 15000
HfDefaultMin == 1000

\* int(os.getenv(name, default))
HfGetenvInt(v, default) == IF v = <<>> THEN default ELSE v[1]

\* for chunk_start in range(start_ms, end_ms, MAX_CHUNK_LENGTH):
\*   transcribe_chunk(chunk, chunk_start / 1000, chunk_end / 1000, speaker)
RECURSIVE HfRange(_, _, _, _)
HfRange(chunk_start, end_ms, MAX_CHUNK_LENGTH, spk) ==
  IF \/ MAX_CHUNK_LENGTH > 0 /\ chunk_start < end_ms
     \/ MAX_CHUNK_LENGTH < 0 /\ chunk_start > end_ms
  THEN << Chunk(chunk_start, Min2(chunk_start + MAX_CHUNK_LENGTH, end_ms), spk) >>
       \o HfRange(chunk_start + MAX_CHUNK_LENGTH, end_ms, MAX_CHUNK_LENGTH, spk)
  ELSE <<>>

\* transcribe_chunk on the pending segment
HfPending(cur) == Chunk(cur[1].start_ms, cur[1].end_ms, cur[1].speaker)

\* The body of "for turn, _, speaker in tqdm(diarization_segments)": the new
\* pending segment and the chunks transcribed, in order.
HfTurn(cur, turn, MAX_CHUNK_LENGTH, MIN_CHUNK_LENGTH) ==
  LET start_ms == ToMs(turn.start)
      end_ms   == ToMs(turn.end)
      duration == end_ms - start_ms
      fresh    == << [start_ms |-> start_ms, end_ms |-> end_ms,
                      duration |-> duration, speaker |-> turn.speaker] >>
  IN  IF duration < MIN_CHUNK_LENGTH
      THEN IF cur # <<>> /\ cur[1].speaker = turn.speaker
           THEN [current |-> << [cur[1] EXCEPT !.end_ms = end_ms,
                                              !.duration = @ + duration] >>,
                 out |-> <<>>]
           ELSE IF cur # <<>>
           THEN [current |-> fresh,
                 out |-> IF cur[1].duration >= MIN_CHUNK_LENGTH
                         THEN << HfPending(cur) >> ELSE <<>>]
           ELSE [current |-> fresh, out |-> <<>>]
      ELSE IF duration > MAX_CHUNK_LENGTH
      THEN [current |-> <<>>,
            out |-> (IF cur # <<>> THEN << HfPending(cur) >> ELSE <<>>)
                    \o HfRange(start_ms, end_ms, MAX_CHUNK_LENGTH, turn.speaker)]
      ELSE [current |-> <<>>,
            out |-> (IF cur # <<>> THEN << HfPending(cur) >> ELSE <<>>)
                    \o << Chunk(start_ms, end_ms, turn.speaker) >>]

RECURSIVE HfLoop(_, _, _, _, _, _)
HfLoop(turns, i, cur, out, MAX_CHUNK_LENGTH, MIN_CHUNK_LENGTH) ==
  IF i > Len(turns)
  THEN IF cur # <<>> /\ cur[1].duration >= MIN_CHUNK_LENGTH
       THEN Append(out, HfPending(cur)) ELSE out
  ELSE LET r == HfTurn(cur, turns[i], MAX_CHUNK_LENGTH, MIN_CHUNK_LENGTH)
       IN  HfLoop(turns, i + 1, r.current, out \o r.out,
                  MAX_CHUNK_LENGTH, MIN_CHUNK_LENGTH)

\* The chunks HuggingFaceSTT.transcribe hands to transcribe_chunk, one by
\* one, for a turn list under the environment (max, min).
HfTranscribed(turns, max_env, min_env) ==
  HfLoop(turns, 1, <<>>, <<>>, HfGetenvInt(max_env, HfDefaultMax),
         HfGetenvInt(min_env, HfDefaultMin))

\* ------------------------------------------------------------- configuration
\* environment.py, at import
LoadEnvironment ==
  /\ pc = "boot"
  /\ MAX_CHUNK_LENGTH_MS' = EnvInt(envMax)
  /\ MIN_CHUNK_LENGTH_MS' = EnvInt(envMin)
  /\ IF EnvInt(envMax) = 0 \/ EnvInt(envMin) = 0
     THEN pc' = "config_error" /\ error' = "ValueError"
     ELSE pc' = "ready" /\ error' = error
  /\ UNCHANGED serviceVars
  /\ UNCHANGED streamVars
  /\ UNCHANGED <<envMax, envMin, batch_size, diarization_segments, idx,
                 current_segment, batch_metadata, todo, transcribed_segments,
                 enqueued, submitted, max_gap, merged_segments, text_output>>

\* ---------------------------------------------------------------- transcribe
\* transcribe up to the call of _process_diarization_segments, and the
\* initialisation of the scheduler's locals
Transcribe ==
  /\ pc = "ready"
  /\ \E turns \in TurnInputs : diarization_segments' = turns
  /\ idx' = 1
  /\ current_segment' = <<>>
  /\ batch_metadata' = <<>>
  /\ transcribed_segments' = <<>>
  /\ pc' = "loop"
  /\ UNCHANGED serviceVars
  /\ UNCHANGED streamVars
  /\ UNCHANGED <<envMax, envMin, MAX_CHUNK_LENGTH_MS, MIN_CHUNK_LENGTH_MS,
                 batch_size, todo, enqueued, submitted, error, max_gap,
                 merged_segments, text_output>>

\* One iteration of "for turn, _, speaker in diarization_segments": the
\* branch taken, the pending segment it leaves and the appends it makes.
NextTurn ==
  /\ pc = "loop"
  /\ todo = <<>>
  /\ idx <= Len(diarization_segments)
  /\ LET r == HandleTurn(current_segment, diarization_segments[idx])
     IN  /\ current_segment' = r.current
         /\ todo' = [k \in 1..Len(r.chunks) |->
                       [meta |-> r.chunks[k].meta,
                        origin |-> r.chunks[k].origin,
                        duration |-> r.chunks[k].duration,
                        turn |-> idx]]
  /\ idx' = idx + 1
  /\ UNCHANGED serviceVars
  /\ UNCHANGED streamVars
  /\ UNCHANGED <<pc, envMax, envMin, MAX_CHUNK_LENGTH_MS, MIN_CHUNK_LENGTH_MS,
                 batch_size, diarization_segments, batch_metadata,
                 transcribed_segments, enqueued, submitted, error, max_gap,
                 merged_segments, text_output>>

\* Variant: the batch is submitted one append late.
BatchFullLate(batch) == Len(batch) > batch_size

\* if len(batch_chunks) >= self.batch_size
BatchFull(batch) == Len(batch) >= batch_size

\* Variant: the final batch is submitted even when it is empty.
HasRemainingAlways(batch) == TRUE

\* if batch_chunks   (the final batch)
HasRemaining(batch) == batch # <<>>

\* batch_metadata.append(...); when the batch is full: transcribe it, extend
\* the results, reset the batch.
Enqueue ==
  /\ pc = "loop"
  /\ todo # <<>>
  /\ LET batch == Append(batch_metadata, Head(todo).meta)
     IN  /\ enqueued' = Append(enqueued, Head(todo))
         /\ todo' = Tail(todo)
         /\ IF BatchFull(batch)
            THEN /\ ~AdapterRejects(batch)
                 /\ \E texts \in BatchTexts(batch) :
                      transcribed_segments' =
                        transcribed_segments \o TranscribeChunksBatch(batch, texts)
                 /\ submitted' = Append(submitted, batch)
                 /\ batch_metadata' = <<>>
            ELSE /\ batch_metadata' = batch
                 /\ UNCHANGED <<transcribed_segments, submitted>>
  /\ UNCHANGED serviceVars
  /\ UNCHANGED streamVars
  /\ UNCHANGED <<pc, envMax, envMin, MAX_CHUNK_LENGTH_MS, MIN_CHUNK_LENGTH_MS,
                 batch_size, diarization_segments, idx, current_segment,
                 error, max_gap, merged_segments, text_output>>

\* Variant: the scheduler catches the adapter's error, drops the batch and
\* goes on with the next chunk.
EnqueueFailSwallowed ==
  /\ pc = "loop"
  /\ todo # <<>>
  /\ LET batch == Append(batch_metadata, Head(todo).meta)
     IN  /\ BatchFull(batch)
         /\ enqueued' = Append(enqueued, Head(todo))
         /\ submitted' = Append(submitted, batch)
  /\ batch_metadata' = <<>>
  /\ todo' = Tail(todo)
  /\ error' = "TranscriptionError"
  /\ UNCHANGED serviceVars
  /\ UNCHANGED streamVars
  /\ UNCHANGED <<pc, envMax, envMin, MAX_CHUNK_LENGTH_MS, MIN_CHUNK_LENGTH_MS,
                 batch_size, diarization_segments, idx, current_segment,
                 transcribed_segments, max_gap, merged_segments, text_output>>

\* The same append when the adapter raises on the full batch: the
\* TranscriptionError leaves _process_diarization_segments and transcribe.
EnqueueFail ==
  /\ pc = "loop"
  /\ todo # <<>>
  /\ LET batch == Append(batch_metadata, Head(todo).meta)
     IN  /\ BatchFull(batch)
         /\ enqueued' = Append(enqueued, Head(todo))
         /\ batch_metadata' = batch
         /\ submitted' = Append(submitted, batch)
  /\ pc' = "failed"
  /\ error' = "TranscriptionError"
  /\ UNCHANGED serviceVars
  /\ UNCHANGED streamVars
  /\ UNCHANGED <<envMax, envMin, MAX_CHUNK_LENGTH_MS, MIN_CHUNK_LENGTH_MS,
                 batch_size, diarization_segments, idx, current_segment, todo,
                 transcribed_segments, max_gap, merged_segments, text_output>>

\* A variant of the end-of-stream test without the minimum-duration rule.
RemainingFlushedAnyDuration(cur) == cur # <<>>

\* if current_segment and current_segment["duration"] >= min_chunk_length
RemainingFlushed(cur) ==
  cur # <<>> /\ cur[1].duration >= min_chunk_length

\* "Process any remaining current_segment": appended without a size check.
EndOfStream ==
  /\ pc = "loop"
  /\ todo = <<>>
  /\ idx > Len(diarization_segments)
  /\ IF RemainingFlushed(current_segment)
     THEN LET it == SegmentChunk(current_segment[1])
          IN  /\ batch_metadata' = Append(batch_metadata, it.meta)
              /\ enqueued' = Append(enqueued,
                                    [meta |-> it.meta, origin |-> "final",
                                     duration |-> it.duration, turn |-> idx])
     ELSE UNCHANGED <<batch_metadata, enqueued>>
  /\ pc' = "final"
  /\ UNCHANGED serviceVars
  /\ UNCHANGED streamVars
  /\ UNCHANGED <<envMax, envMin, MAX_CHUNK_LENGTH_MS, MIN_CHUNK_LENGTH_MS,
                 batch_size, diarization_segments, idx, current_segment, todo,
                 transcribed_segments, submitted, error, max_gap,
                 merged_segments, text_output>>

\* "Process any remaining chunks in the batch" and return.
FinalBatch ==
  /\ pc = "final"
  /\ IF HasRemaining(batch_metadata)
     THEN /\ ~AdapterRejects(batch_metadata)
          /\ \E texts \in BatchTexts(batch_metadata) :
               transcribed_segments' =
                 transcribed_segments
                   \o TranscribeChunksBatch(batch_metadata, texts)
          /\ submitted' = Append(submitted, batch_metadata)
     ELSE UNCHANGED <<transcribed_segments, submitted>>
  /\ pc' = "sort"
  /\ UNCHANGED serviceVars
  /\ UNCHANGED streamVars
  /\ UNCHANGED <<envMax, envMin, MAX_CHUNK_LENGTH_MS, MIN_CHUNK_LENGTH_MS,
                 batch_size, diarization_segments, idx, current_segment,
                 batch_metadata, todo, enqueued, error, max_gap,
                 merged_segments, text_output>>

\* The adapter raises on the final batch.
FinalBatchFail ==
  /\ pc = "final"
  /\ HasRemaining(batch_metadata)
  /\ submitted' = Append(submitted, batch_metadata)
  /\ pc' = "failed"
  /\ error' = "TranscriptionError"
  /\ UNCHANGED serviceVars
  /\ UNCHANGED streamVars
  /\ UNCHANGED <<envMax, envMin, MAX_CHUNK_LENGTH_MS, MIN_CHUNK_LENGTH_MS,
                 batch_size, diarization_segments, idx, current_segment,
                 batch_metadata, todo, transcribed_segments, enqueued,
                 max_gap, merged_segments, text_output>>

\* transcribed_segments.sort(key=lambda x: x["start"])
Sort ==
  /\ pc = "sort"
  /\ transcribed_segments' = SortByStart(transcribed_segments)
  /\ pc' = "merge"
  /\ UNCHANGED serviceVars
  /\ UNCHANGED streamVars
  /\ UNCHANGED <<envMax, envMin, MAX_CHUNK_LENGTH_MS, MIN_CHUNK_LENGTH_MS,
                 batch_size, diarization_segments, idx, current_segment,
                 batch_metadata, todo, enqueued, submitted, error, max_gap,
                 merged_segments, text_output>>

\* merged_segments = merge_segments(transcribed_segments)
Merge ==
  /\ pc = "merge"
  /\ merged_segments' = merge_segments(transcribed_segments, max_gap)
  /\ transcribed_segments' =
       merge_segments_call(transcribed_segments, max_gap).segments
  /\ pc' = "format"
  /\ UNCHANGED serviceVars
  /\ UNCHANGED streamVars
  /\ UNCHANGED <<envMax, envMin, MAX_CHUNK_LENGTH_MS, MIN_CHUNK_LENGTH_MS,
                 batch_size, diarization_segments, idx, current_segment,
                 batch_metadata, todo, enqueued, submitted, error, max_gap,
                 text_output>>

\* text_output = format_transcription_output(merged_segments); return
Format ==
  /\ pc = "format"
  /\ text_output' = format_transcription_output(merged_segments)
  /\ pc' = "done"
  /\ UNCHANGED serviceVars
  /\ UNCHANGED streamVars
  /\ UNCHANGED <<envMax, envMin, MAX_CHUNK_LENGTH_MS, MIN_CHUNK_LENGTH_MS,
                 batch_size, diarization_segments, idx, current_segment,
                 batch_metadata, todo, transcribed_segments, enqueued,
                 submitted, error, max_gap, merged_segments>>

Next ==
  \/ LoadEnvironment
  \/ Transcribe
  \/ NextTurn
  \/ Enqueue
  \/ EnqueueFail
  \/ EndOfStream
  \/ FinalBatch
  \/ FinalBatchFail
  \/ Sort
  \/ Merge
  \/ Format

Spec == Init /\ [][Next]_vars


\* ------------------------------------------- merge_segments on its own input
Segment(s, e, txt, spk) == [start |-> s, end |-> e, text |-> txt, speaker |-> spk]

\* Texts of the bounded inputs, one of them with surrounding whitespace.
SegmentTexts == { <<"a">>, <<" ", "b", " ">> }

Segments ==
  {Segment(se[1], se[2], txt, spk) :
     se \in {x \in (0..MaxSegTime) \X (0..MaxSegTime) : x[1] <= x[2]},
     txt \in SegmentTexts, spk \in Speakers}

IsStartSorted(segs) ==
  \A i \in 1..(Len(segs) - 1) : segs[i].start <= segs[i + 1].start

RECURSIVE SegmentListsFrom(_, _)
SegmentListsFrom(prefixes, n) ==
  IF n = 0 THEN prefixes
  ELSE prefixes \cup
       SegmentListsFrom({q \in {Append(p, x) : p \in prefixes, x \in Segments} :
                           IsStartSorted(q)}, n - 1)

SegmentLists == SegmentListsFrom({<<>>}, MaxSegments)

\* [{0,1,"hi",A}, {1.5,2,"there",A}, {2,3,"no",B}]
ScenarioSegments ==
  << Segment(0, 1000, <<"h", "i">>, "A"),
     Segment(1500, 2000, <<"t", "h", "e", "r", "e">>, "A"),
     Segment(2000, 3000, <<"n", "o">>, "B") >>

\* Two segments of one speaker one millisecond apart, then another speaker.
BoundarySegments ==
  << Segment(0, 1, <<"a">>, "A"),
     Segment(2, 2, <<" ", "b", " ">>, "A"),
     Segment(2, 2, <<"a">>, "B") >>

\* Three speakers, far enough apart never to coalesce; the first to speak
\* is not the first label in alphabetical order and speaks again.
ThreeSpeakerSegments ==
  << Segment(0, 0, <<"a">>, "B"),
     Segment(MaxGap + 1, MaxGap + 1, <<"a">>, "C"),
     Segment(2 * (MaxGap + 1), 2 * (MaxGap + 1), <<" ", "b", " ">>, "B"),
     Segment(3 * (MaxGap + 1), 3 * (MaxGap + 1), <<"a">>, "A") >>

\* merge_segments called with a list and a max_gap of the caller's choice.
InitMerge ==
  /\ pc = "merge"
  /\ \/ transcribed_segments
          \in SegmentLists \cup {BoundarySegments, ThreeSpeakerSegments}
        /\ max_gap \in 0..MaxGap
     \/ transcribed_segments = ScenarioSegments /\ max_gap = DefaultMaxGap
  /\ envMin = <<>>
  /\ envMax = <<>>
  /\ batch_size = 1
  /\ MAX_CHUNK_LENGTH_MS = 0
  /\ MIN_CHUNK_LENGTH_MS = 0
  /\ diarization_segments = <<>>
  /\ idx = 1
  /\ current_segment = <<>>
  /\ batch_metadata = <<>>
  /\ todo = <<>>
  /\ enqueued = <<>>
  /\ submitted = <<>>
  /\ error = "none"
  /\ merged_segments = <<>>
  /\ text_output = <<>>
  /\ ServiceIdle
  /\ StreamIdle

NextMerge == Merge \/ Format

SpecMerge == InitMerge /\ [][NextMerge]_vars

\* ------------------------------------------------------- live transcription
\* AudioRecorder(sample_rate=16000)
sample_rate == 16000

\* AudioRecorder.__init__(..., chunk_size: int = 1024, ...): the frames of
\* one recorder callback.
chunk_size == 1024

\* overlap_ms = 500
overlap_ms == 500

\* chunk_duration_ms: Optional[int] = 5000
DefaultChunkDurationMs == 5000

\* The chunk_duration_ms a client asks for.
ChunkDurations == {100, overlap_ms, DefaultChunkDurationMs}

RECURSIVE SumSeq(_)
SumSeq(s) == IF s = <<>> THEN 0 ELSE Head(s) + SumSeq(Tail(s))

\* (len(chunk) * 1000) / recorder.sample_rate; exact for the recorder's
\* chunk size.
ChunkMs(samples) == (samples * 1000) \div sample_rate

\* The turns diarization finds in one buffer, in milliseconds from the
\* start of the buffer.
LiveTurnLists ==
  { <<>>,
    << [start |-> 0, end |-> 60, speaker |-> "A"] >>,
    << [start |-> 10, end |-> 30, speaker |-> "A"],
       [start |-> 30, end |-> 60, speaker |-> "B"] >> }

\* def transcribe_chunk(self, chunk, start_time, end_time, speaker, frame_rate)
TranscribeChunkParameters ==
  {"chunk", "start_time", "end_time", "speaker", "frame_rate"}

\* transcribe_chunk(start_time=..., end_time=..., speaker=..., waveform=...,
\*                  sample_rate=...)
LiveCallKeywords ==
  {"start_time", "end_time", "speaker", "waveform", "sample_rate"}

\* A call binds when every keyword names a parameter and no parameter
\* (none has a default) is left without an argument; Python raises
\* TypeError otherwise, before the body runs.
CallBinds(keywords, parameters) == keywords = parameters

\* The position in the recording, in milliseconds, of the first sample of
\* the buffer.
BufferBeginMs == ((received - SumSeq(buffer)) * 1000) \div sample_rate

\* live_transcribe: the event generator starts, creates the transcribe_live
\* generator (no code of it runs yet) and sends the ready event.
OpenLiveStream ==
  /\ live_pc = "idle"
  /\ \E d \in ChunkDurations : chunk_duration_ms' = d
  /\ live_events' = Append(live_events, "ready")
  /\ live_pc' = "ready"
  /\ UNCHANGED pipelineVars
  /\ UNCHANGED streamVars
  /\ UNCHANGED captureVars
  /\ UNCHANGED <<buffer, buffer_duration_ms, live_segments, recorder,
                 live_error, received, flushes, calls, stop_pc,
                 stop_response, is_running>>

\* transcribe_live up to the loop: the recorder is created and started
\* (start_recording sets is_recording and opens the stream), and the try
\* block is entered.
StartRecording ==
  /\ live_pc = "ready"
  /\ recorder' = "recording"
  /\ is_recording' = TRUE
  /\ buffer' = <<>>
  /\ buffer_duration_ms' = 0
  /\ live_pc' = "loop"
  /\ UNCHANGED pipelineVars
  /\ UNCHANGED streamVars
  /\ UNCHANGED <<chunk_duration_ms, live_segments, live_error, live_events,
                 received, flushes, calls, stop_pc, stop_response,
                 is_running>>
  /\ UNCHANGED <<audio_queue, callback, captured, dropped, delivered, chunk,
                 stop_calls>>

\* start_recording has set is_recording and audio.open or start_stream
\* raises: the exception is re-raised ahead of the try block of
\* transcribe_live, so no finally block runs.
StartStreamFail ==
  /\ live_pc = "ready"
  /\ recorder' = "failed"
  /\ is_recording' = TRUE
  /\ live_error' = "OSError"
  /\ live_pc' = "raised"
  /\ UNCHANGED pipelineVars
  /\ UNCHANGED streamVars
  /\ UNCHANGED <<chunk_duration_ms, buffer, buffer_duration_ms,
                 live_segments, live_events, received, flushes, calls,
                 stop_pc, stop_response, is_running>>
  /\ UNCHANGED <<audio_queue, callback, captured, dropped, delivered, chunk,
                 stop_calls>>

\* AudioRecorder() finds no input device: RuntimeError, raised ahead of the
\* try block.
StartRecordingFail ==
  /\ live_pc = "ready"
  /\ live_error' = "RuntimeError"
  /\ live_pc' = "raised"
  /\ UNCHANGED pipelineVars
  /\ UNCHANGED streamVars
  /\ UNCHANGED captureVars
  /\ UNCHANGED <<chunk_duration_ms, buffer, buffer_duration_ms,
                 live_segments, recorder, live_events, received, flushes,
                 calls, stop_pc, stop_response, is_running>>

\* Variant: the read takes the newest chunk of the queue.
QueueGetNewest(q) == [item |-> Last(q), rest |-> SubSeq(q, 1, Len(q) - 1)]

\* queue.Queue.get: the oldest item
QueueGet(q) == [item |-> Head(q), rest |-> Tail(q)]

\* _audio_callback, up to the test of is_recording: the stream hands the
\* callback a chunk, which it keeps for the put or discards.  The chunk is
\* numbered in the order of the callbacks; busy tells whether the consumer
\* was in a flush.
AudioCallback ==
  /\ recorder = "recording"
  /\ callback = <<>>
  /\ IF is_recording
     THEN /\ Len(audio_queue) < MaxQueue
          /\ callback' = << [id |-> captured + 1,
                             busy |-> live_pc \in {"flush", "segments"}] >>
          /\ captured' = captured + 1
          /\ UNCHANGED dropped
     ELSE /\ dropped' = TRUE
          /\ UNCHANGED <<callback, captured>>
  /\ UNCHANGED pipelineVars
  /\ UNCHANGED streamVars
  /\ UNCHANGED <<live_pc, chunk_duration_ms, buffer, buffer_duration_ms,
                 live_segments, recorder, live_error, live_events, received,
                 flushes, calls, stop_pc, stop_response, is_running>>
  /\ UNCHANGED <<is_recording, audio_queue, delivered, chunk, stop_calls>>

\* _audio_callback: self.audio_queue.put(audio_data)
AudioCallbackPut ==
  /\ callback # <<>>
  /\ audio_queue' = Append(audio_queue, callback[1])
  /\ callback' = <<>>
  /\ UNCHANGED pipelineVars
  /\ UNCHANGED streamVars
  /\ UNCHANGED <<live_pc, chunk_duration_ms, buffer, buffer_duration_ms,
                 live_segments, recorder, live_error, live_events, received,
                 flushes, calls, stop_pc, stop_response, is_running>>
  /\ UNCHANGED <<is_recording, captured, dropped, delivered, chunk,
                 stop_calls>>

\* One iteration of "while True" up to the flush test: get_audio_chunk
\* finds the queue empty until the timeout and returns None (continue), or
\* returns the oldest chunk, which is buffered.
GetAudioChunk ==
  /\ live_pc = "loop"
  /\ flushes < MaxFlushes
  /\ IF audio_queue = <<>>
     THEN /\ chunk' = <<>>
          /\ UNCHANGED <<buffer, buffer_duration_ms, received, live_pc,
                         audio_queue, delivered>>
     ELSE LET got == QueueGet(audio_queue)
          IN  /\ chunk' = << got.item >>
              /\ audio_queue' = got.rest
              /\ delivered' = delivered + 1
              /\ buffer' = Append(buffer, chunk_size)
              /\ buffer_duration_ms' = buffer_duration_ms + ChunkMs(chunk_size)
              /\ received' = received + chunk_size
              /\ live_pc' = IF buffer_duration_ms' >= chunk_duration_ms
                            THEN "flush" ELSE "loop"
  /\ UNCHANGED pipelineVars
  /\ UNCHANGED streamVars
  /\ UNCHANGED <<chunk_duration_ms, live_segments, recorder, live_error,
                 live_events, flushes, calls, stop_pc, stop_response,
                 is_running>>
  /\ UNCHANGED <<is_recording, callback, captured, dropped, stop_calls>>

\* perform_diarization and process_diarization_segments on the buffer
Diarize ==
  /\ live_pc = "flush"
  /\ \E turns \in LiveTurnLists : live_segments' = turns
  /\ live_pc' = "segments"
  /\ UNCHANGED pipelineVars
  /\ UNCHANGED streamVars
  /\ UNCHANGED captureVars
  /\ UNCHANGED <<chunk_duration_ms, buffer, buffer_duration_ms, recorder,
                 live_error, live_events, received, flushes, calls, stop_pc,
                 stop_response, is_running>>

\* perform_diarization raises: the exception reaches the finally block.
DiarizeFail ==
  /\ live_pc = "flush"
  /\ live_error' = "DiarizationError"
  /\ live_pc' = "finally"
  /\ UNCHANGED pipelineVars
  /\ UNCHANGED streamVars
  /\ UNCHANGED captureVars
  /\ UNCHANGED <<chunk_duration_ms, buffer, buffer_duration_ms,
                 live_segments, recorder, live_events, received, flushes,
                 calls, stop_pc, stop_response, is_running>>

\* The body of "for segment, _, speaker in segments": the segment is handed
\* to transcribe_chunk with the times diarization gave it.  A call that
\* binds yields its result, which the event generator sends on, and the
\* generator is resumed or closed at the yield (GeneratorExit reaches the
\* finally block); one that does not bind raises TypeError, which reaches
\* the finally block.
TranscribeSegment ==
  /\ live_pc = "segments"
  /\ live_segments # <<>>
  /\ calls' = Append(calls, [start_time |-> Head(live_segments).start,
                             end_time |-> Head(live_segments).end,
                             speaker |-> Head(live_segments).speaker,
                             flush |-> flushes + 1,
                             buffer_begin |-> BufferBeginMs])
  /\ IF CallBinds(LiveCallKeywords, TranscribeChunkParameters)
     THEN /\ live_segments' = Tail(live_segments)
          /\ live_events' = Append(live_events, "transcription")
          /\ live_pc' \in {live_pc, "finally"}
          /\ UNCHANGED <<recorder, live_error>>
     ELSE /\ live_error' = "TypeError"
          /\ live_pc' = "finally"
          /\ UNCHANGED <<recorder, live_segments, live_events>>
  /\ UNCHANGED pipelineVars
  /\ UNCHANGED streamVars
  /\ UNCHANGED captureVars
  /\ UNCHANGED <<chunk_duration_ms, buffer, buffer_duration_ms, received,
                 flushes, stop_pc, stop_response, is_running>>

\* samples_to_keep = int((overlap_ms * recorder.sample_rate) / 1000)
samples_to_keep == (overlap_ms * sample_rate) \div 1000

\* "Keep a small overlap for context", once every segment is done
RetainOverlap ==
  /\ live_pc = "segments"
  /\ live_segments = <<>>
  /\ IF buffer_duration_ms > overlap_ms
     THEN /\ buffer' = << Min2(Last(buffer), samples_to_keep) >>
          /\ buffer_duration_ms' = overlap_ms
     ELSE /\ buffer' = <<>>
          /\ buffer_duration_ms' = 0
  /\ flushes' = flushes + 1
  /\ live_pc' = "loop"
  /\ UNCHANGED pipelineVars
  /\ UNCHANGED streamVars
  /\ UNCHANGED captureVars
  /\ UNCHANGED <<chunk_duration_ms, live_segments, recorder, live_error,
                 live_events, received, calls, stop_pc, stop_response,
                 is_running>>

\* Variant: the interrupt leaves the generator without the finally block.
LiveInterruptUnstopped ==
  /\ live_pc \in {"loop", "flush", "segments"}
  /\ live_pc' = "closing"
  /\ UNCHANGED pipelineVars
  /\ UNCHANGED streamVars
  /\ UNCHANGED captureVars
  /\ UNCHANGED <<chunk_duration_ms, buffer, buffer_duration_ms,
                 live_segments, recorder, live_error, live_events, received,
                 flushes, calls, stop_pc, stop_response, is_running>>

\* KeyboardInterrupt inside the try block: "except KeyboardInterrupt"
\* logs it, and the finally block follows with no exception pending.
LiveInterrupt ==
  /\ live_pc \in {"loop", "flush", "segments"}
  /\ live_pc' = "finally"
  /\ UNCHANGED pipelineVars
  /\ UNCHANGED streamVars
  /\ UNCHANGED captureVars
  /\ UNCHANGED <<chunk_duration_ms, buffer, buffer_duration_ms,
                 live_segments, recorder, live_error, live_events, received,
                 flushes, calls, stop_pc, stop_response, is_running>>

\* finally: recorder.stop_recording(), its first statement
\* self.is_recording = False
StopRecording ==
  /\ live_pc = "finally"
  /\ is_recording' = FALSE
  /\ stop_calls' = stop_calls + 1
  /\ live_pc' = "stopping"
  /\ UNCHANGED pipelineVars
  /\ UNCHANGED streamVars
  /\ UNCHANGED <<chunk_duration_ms, buffer, buffer_duration_ms,
                 live_segments, recorder, live_error, live_events, received,
                 flushes, calls, stop_pc, stop_response, is_running>>
  /\ UNCHANGED <<audio_queue, callback, captured, dropped, delivered, chunk>>

\* stop_recording: stream.stop_stream(), stream.close(), audio.terminate();
\* the generator is then left, by the pending exception or by returning.
StopStream ==
  /\ live_pc = "stopping"
  /\ recorder' = "stopped"
  /\ live_pc' = IF live_error # "none" THEN "raised" ELSE "closing"
  /\ UNCHANGED pipelineVars
  /\ UNCHANGED streamVars
  /\ UNCHANGED captureVars
  /\ UNCHANGED <<chunk_duration_ms, buffer, buffer_duration_ms,
                 live_segments, live_error, live_events, received, flushes,
                 calls, stop_pc, stop_response, is_running>>

\* live_transcribe.event_generator: except Exception, the error event
LiveErrorEvent ==
  /\ live_pc = "raised"
  /\ live_events' = Append(live_events, "error")
  /\ live_pc' = "closing"
  /\ UNCHANGED pipelineVars
  /\ UNCHANGED streamVars
  /\ UNCHANGED captureVars
  /\ UNCHANGED <<chunk_duration_ms, buffer, buffer_duration_ms,
                 live_segments, recorder, live_error, received, flushes,
                 calls, stop_pc, stop_response, is_running>>

\* live_transcribe.event_generator: finally, the close event
LiveCloseEvent ==
  /\ live_pc = "closing"
  /\ live_events' = Append(live_events, "close")
  /\ live_pc' = "closed"
  /\ UNCHANGED pipelineVars
  /\ UNCHANGED streamVars
  /\ UNCHANGED captureVars
  /\ UNCHANGED <<chunk_duration_ms, buffer, buffer_duration_ms,
                 live_segments, recorder, live_error, received, flushes,
                 calls, stop_pc, stop_response, is_running>>

\* ------------------------------------------------------ stop_live_transcribe
\* The methods class SpeechToText defines.
SpeechToTextMethods ==
  {"__init__", "_infer_device", "_update_settings", "transcribe",
   "_process_diarization_segments", "transcribe_live"}

\* The event loop runs a handler only while no other handler holds it:
\* the live event generator iterates transcribe_live with a plain for, so
\* it holds the loop from the first next() until the generator raises.
EventLoopFree == live_pc \in {"idle", "ready", "closing", "closed"}

\* POST /stop-live-transcribe arrives.
StopRequest ==
  /\ stop_pc = "none"
  /\ stop_pc' = "pending"
  /\ UNCHANGED pipelineVars
  /\ UNCHANGED streamVars
  /\ UNCHANGED captureVars
  /\ UNCHANGED <<live_pc, chunk_duration_ms, buffer, buffer_duration_ms,
                 live_segments, recorder, live_error, live_events, received,
                 flushes, calls, stop_response, is_running>>

\* stop_with_timeout runs in its thread within stop_timeout:
\* self.stt.stop_live_transcription() returns, or the attribute lookup
\* raises AttributeError, which "except Exception" turns into HTTP 500.
StopInTime ==
  /\ stop_pc = "pending"
  /\ EventLoopFree
  /\ stop_response' = IF "stop_live_transcription" \in SpeechToTextMethods
                      THEN "stopped" ELSE "http_500"
  /\ stop_pc' = "answered"
  /\ UNCHANGED pipelineVars
  /\ UNCHANGED streamVars
  /\ UNCHANGED captureVars
  /\ UNCHANGED <<live_pc, chunk_duration_ms, buffer, buffer_duration_ms,
                 live_segments, recorder, live_error, live_events, received,
                 flushes, calls, is_running>>

\* asyncio.TimeoutError: the thread did not finish within stop_timeout
\* (the executor gave it no worker in time).  SpeechToText has no recorder
\* attribute, so only is_running is set.
StopTimedOut ==
  /\ stop_pc = "pending"
  /\ EventLoopFree
  /\ is_running' = <<FALSE>>
  /\ stop_response' = "force_stopped"
  /\ stop_pc' = "answered"
  /\ UNCHANGED pipelineVars
  /\ UNCHANGED streamVars
  /\ UNCHANGED captureVars
  /\ UNCHANGED <<live_pc, chunk_duration_ms, buffer, buffer_duration_ms,
                 live_segments, recorder, live_error, live_events, received,
                 flushes, calls>>

\* The service with no file pipeline running.
InitLive ==
  /\ pc = "boot"
  /\ envMin = <<>>
  /\ envMax = <<>>
  /\ batch_size = 1
  /\ MAX_CHUNK_LENGTH_MS = 0
  /\ MIN_CHUNK_LENGTH_MS = 0
  /\ diarization_segments = <<>>
  /\ idx = 1
  /\ current_segment = <<>>
  /\ batch_metadata = <<>>
  /\ todo = <<>>
  /\ transcribed_segments = <<>>
  /\ enqueued = <<>>
  /\ submitted = <<>>
  /\ error = "none"
  /\ max_gap = DefaultMaxGap
  /\ merged_segments = <<>>
  /\ text_output = <<>>
  /\ ServiceIdle
  /\ StreamIdle

NextLive ==
  \/ OpenLiveStream
  \/ StartRecording
  \/ StartRecordingFail
  \/ StartStreamFail
  \/ AudioCallback
  \/ AudioCallbackPut
  \/ GetAudioChunk
  \/ Diarize
  \/ DiarizeFail
  \/ TranscribeSegment
  \/ RetainOverlap
  \/ LiveInterrupt
  \/ StopRecording
  \/ StopStream
  \/ LiveErrorEvent
  \/ LiveCloseEvent
  \/ StopRequest
  \/ StopInTime
  \/ StopTimedOut

SpecLive == InitLive /\ [][NextLive]_vars

\* ------------------------------------------------------------ file endpoint
RECURSIVE Digits(_)
Digits(n) == IF n < 10 THEN 1 ELSE 1 + Digits(n \div 10)

\* len(f"[{start_time_str} -> {end_time_str}] {speaker}:\n{text}\n\n") summed
\* over the blocks: the number of characters of the transcript.
RECURSIVE RenderedLength(_)
RenderedLength(blocks) ==
  IF blocks = <<>> THEN 0
  ELSE 35 + Digits(Head(blocks).speaker) + Len(Head(blocks).text)
       + RenderedLength(Tail(blocks))

\* What self.stt.transcribe(temp_file_path) does for the thread: it raises,
\* or it returns the transcript, a str.
TranscribeOutcomes ==
  { [raised |-> "TranscriptionError", text |-> <<>>],
    [raised |-> "none", text |-> <<>>],
    [raised |-> "none",
     text |-> format_transcription_output(
                merge_segments(ScenarioSegments, DefaultMaxGap))] }

\* result["type"] on what the queue delivers: a str (one character of the
\* transcript) cannot be indexed with a str.
Subscriptable(item) == item # "char"

\* transcribe_audio returns the event generator, which sends the ready
\* event, creates the queue and starts process_transcription in a thread.
OpenFileStream ==
  /\ stream_pc = "idle"
  /\ stream_events' = Append(stream_events, "ready")
  /\ queue' = <<>>
  /\ producer_pc' = "transcribing"
  /\ stream_pc' = "get"
  /\ UNCHANGED pipelineVars
  /\ UNCHANGED serviceVars
  /\ UNCHANGED <<produce_left, producer_error, stream_error, stream_escaped>>

\* process_transcription: self.stt.transcribe(...) returns the str the for
\* loop then iterates, or raises; the finally block puts None and the
\* exception ends the task.
ProducerTranscribe ==
  /\ producer_pc = "transcribing"
  /\ \E outcome \in TranscribeOutcomes :
       IF outcome.raised # "none"
       THEN /\ producer_error' = outcome.raised
            /\ queue' = Append(queue, "None")
            /\ producer_pc' = "raised"
            /\ UNCHANGED produce_left
       ELSE /\ produce_left' = RenderedLength(outcome.text)
            /\ producer_pc' = "putting"
            /\ UNCHANGED <<queue, producer_error>>
  /\ UNCHANGED pipelineVars
  /\ UNCHANGED serviceVars
  /\ UNCHANGED <<stream_pc, stream_events, stream_error, stream_escaped>>

\* for result in <str>: await queue.put(result)
ProducerPut ==
  /\ producer_pc = "putting"
  /\ produce_left > 0
  /\ queue' = Append(queue, "char")
  /\ produce_left' = produce_left - 1
  /\ UNCHANGED pipelineVars
  /\ UNCHANGED serviceVars
  /\ UNCHANGED <<stream_pc, stream_events, producer_pc, producer_error,
                 stream_error, stream_escaped>>

\* finally: await queue.put(None)
ProducerFinish ==
  /\ producer_pc = "putting"
  /\ produce_left = 0
  /\ queue' = Append(queue, "None")
  /\ producer_pc' = "done"
  /\ UNCHANGED pipelineVars
  /\ UNCHANGED serviceVars
  /\ UNCHANGED <<stream_pc, stream_events, produce_left, producer_error,
                 stream_error, stream_escaped>>

\* result = await queue.get(): None breaks the loop; anything else is
\* dispatched on result["type"], which raises TypeError for a str.
StreamGet ==
  /\ stream_pc = "get"
  /\ queue # <<>>
  /\ queue' = Tail(queue)
  /\ IF Head(queue) = "None"
     THEN /\ stream_pc' = "closing"
          /\ UNCHANGED <<stream_events, stream_error>>
     ELSE IF Subscriptable(Head(queue))
     THEN /\ stream_events' = Append(stream_events, "transcription")
          /\ UNCHANGED <<stream_pc, stream_error>>
     ELSE /\ stream_error' = "TypeError"
          /\ stream_pc' = "raised"
          /\ UNCHANGED stream_events
  /\ UNCHANGED pipelineVars
  /\ UNCHANGED serviceVars
  /\ UNCHANGED <<producer_pc, produce_left, producer_error, stream_escaped>>

\* except Exception as e: the error event
StreamErrorEvent ==
  /\ stream_pc = "raised"
  /\ stream_events' = Append(stream_events, "error")
  /\ stream_pc' = "closing"
  /\ UNCHANGED pipelineVars
  /\ UNCHANGED serviceVars
  /\ UNCHANGED <<queue, producer_pc, produce_left, producer_error,
                 stream_error, stream_escaped>>

\* finally: the close event
StreamCloseEvent ==
  /\ stream_pc = "closing"
  /\ stream_events' = Append(stream_events, "close")
  /\ stream_pc' = "awaiting"
  /\ UNCHANGED pipelineVars
  /\ UNCHANGED serviceVars
  /\ UNCHANGED <<queue, producer_pc, produce_left, producer_error,
                 stream_error, stream_escaped>>

\* finally: await transcription_task, which re-raises the exception the
\* task ended with.
StreamAwaitTask ==
  /\ stream_pc = "awaiting"
  /\ producer_pc \in {"done", "raised"}
  /\ stream_escaped' = producer_error
  /\ stream_pc' = IF producer_error = "none" THEN "closed" ELSE "escaped"
  /\ UNCHANGED pipelineVars
  /\ UNCHANGED serviceVars
  /\ UNCHANGED <<stream_events, queue, producer_pc, produce_left,
                 producer_error, stream_error>>

NextStream ==
  \/ OpenFileStream
  \/ ProducerTranscribe
  \/ ProducerPut
  \/ ProducerFinish
  \/ StreamGet
  \/ StreamErrorEvent
  \/ StreamCloseEvent
  \/ StreamAwaitTask

SpecStream == InitLive /\ [][NextStream]_vars

\* =================================================================== claims
\* The bounds the specification allows: 0 < min <= max.
ValidBounds ==
  /\ 0 < MIN_CHUNK_LENGTH_MS
  /\ MIN_CHUNK_LENGTH_MS <= MAX_CHUNK_LENGTH_MS

Scheduling == pc \in {"loop", "final"}

Returned == pc \in {"sort", "merge", "format", "done"}

Metas(items) == [k \in 1..Len(items) |-> items[k].meta]

SegmentMetas(segs) ==
  [k \in 1..Len(segs) |-> Chunk(segs[k].start, segs[k].end, segs[k].speaker)]

\* Turn i has been taken from the list and all its appends are made.
TurnHandled(i) ==
  /\ Scheduling \/ Returned
  /\ i \in 1..Len(diarization_segments)
  /\ idx > i + 1 \/ (idx = i + 1 /\ todo = <<>>)

DurationMs(turn) == ToMs(turn.end) - ToMs(turn.start)

\* The appends made for turn i with the given origin, in order.
AppendsOf(i, origin) ==
  LET Mine(it) == it.turn = i /\ it.origin = origin
  IN  Metas(SelectSeq(enqueued, Mine))

\* C1: under bounds 0 < min <= max, every chunk of every batch handed to the
\* adapter is at most max_chunk_length milliseconds long.
C1_ChunkWithinMax ==
  ValidBounds =>
    \A b \in 1..Len(submitted) : \A k \in 1..Len(submitted[b]) :
      submitted[b][k].end - submitted[b][k].start <= max_chunk_length

\* C2: under bounds 0 < min <= max, every pending segment appended to a
\* batch before the end of the turn list, whatever turn triggers the flush,
\* has accumulated a duration of at least min_chunk_length.
C2_MidStreamFlushMeetsMin ==
  ValidBounds =>
    \A k \in 1..Len(enqueued) :
      enqueued[k].origin = "pending" =>
        enqueued[k].duration >= min_chunk_length

ScenarioMergeRun ==
  /\ diarization_segments = ScenarioMergeTurns
  /\ MIN_CHUNK_LENGTH_MS = ScenarioBounds.min
  /\ MAX_CHUNK_LENGTH_MS = ScenarioBounds.max
  /\ TurnHandled(3)

TilesExactly(w, start_ms, end_ms, step, spk) ==
  /\ Len(w) >= 1
  /\ w[1].start = start_ms
  /\ w[Len(w)].end = end_ms
  /\ \A k \in 1..Len(w) :
       /\ w[k].speaker = spk
       /\ w[k].start < w[k].end
       /\ w[k].end - w[k].start <= step
  /\ \A k \in 1..(Len(w) - 1) :
       /\ w[k].end - w[k].start = step
       /\ w[k + 1].start = w[k].end

\* C4: with max > 0, the appends made for a turn longer than max are the
\* windows of width max that tile [start_ms, end_ms) in order under the
\* turn's speaker, and (0, 25.0, A) with max 10000 gives [0,10), [10,20),
\* [20,25) seconds.
C4_LongTurnTiled ==
  /\ MAX_CHUNK_LENGTH_MS > 0 =>
       \A i \in 1..Len(diarization_segments) :
         (TurnHandled(i) /\ DurationMs(diarization_segments[i]) > max_chunk_length)
           => /\ TilesExactly(AppendsOf(i, "split"),
                              ToMs(diarization_segments[i].start),
                              ToMs(diarization_segments[i].end),
                              max_chunk_length,
                              diarization_segments[i].speaker)
              /\ AppendsOf(i, "turn") = <<>>
  /\ (/\ diarization_segments = ScenarioLongTurns
      /\ MAX_CHUNK_LENGTH_MS = ScenarioBounds.max
      /\ TurnHandled(1))
       => Metas(enqueued) =
            << Chunk(0, 10000, "A"), Chunk(10000, 20000, "A"),
               Chunk(20000, 25000, "A") >>

\* C5: every batch handed to the adapter holds between 1 and batch_size
\* chunks, every batch but the last holds exactly batch_size, and the batch
\* being filled never stays at batch_size after an append of the loop.
C5_BatchSizes ==
  /\ \A b \in 1..Len(submitted) :
       Len(submitted[b]) >= 1 /\ Len(submitted[b]) <= batch_size
  /\ \A b \in 1..(Len(submitted) - 1) : Len(submitted[b]) = batch_size
  /\ pc = "loop" => Len(batch_metadata) < batch_size
  /\ pc = "final" => Len(batch_metadata) <= batch_size

\* A pass that filled one batch and then submitted the end-of-stream flush
\* of the pending segment in a last batch.
C5_Witness ==
  /\ pc = "sort"
  /\ ValidBounds
  /\ Len(submitted) >= 2
  /\ enqueued[Len(enqueued)].origin = "final"
  /\ batch_size >= 2
  /\ Len(submitted[Len(submitted)]) < batch_size

\* C6: the batches handed to the adapter, concatenated in submission order,
\* are the appended chunks in append order; the results of a batch are
\* collected before the next submission; the list returned is in that order.
C6_SubmissionOrder ==
  /\ Scheduling =>
       /\ Metas(enqueued) = Flatten(submitted) \o batch_metadata
       /\ SegmentMetas(transcribed_segments) = Flatten(submitted)
  /\ pc = "failed" =>
       /\ Metas(enqueued) = Flatten(submitted)
       /\ SegmentMetas(transcribed_segments)
            = Flatten(SubSeq(submitted, 1, Len(submitted) - 1))
  /\ pc = "sort" =>
       /\ Metas(enqueued) = Flatten(submitted)
       /\ SegmentMetas(transcribed_segments) = Metas(enqueued)

C6_Witness ==
  /\ pc = "sort"
  /\ Len(submitted) >= 2
  /\ Len(submitted[1]) >= 2
  /\ \E j, k \in 1..Len(enqueued) : enqueued[j].meta # enqueued[k].meta

\* C7: with an empty turn list the adapter is never called and no error is
\* raised, merge_segments returns the empty list and the transcript is "".
C7_EmptyTurnList ==
  ((Scheduling \/ Returned \/ pc = "failed") /\ diarization_segments = <<>>) =>
    /\ submitted = <<>>
    /\ pc # "failed" /\ error = "none"
    /\ transcribed_segments = <<>>
    /\ pc \in {"format", "done"} => merged_segments = <<>>
    /\ pc = "done" => text_output = <<>>

C7_Witness ==
  /\ pc = "done"
  /\ diarization_segments = <<>>
  /\ submitted = <<>>
  /\ text_output = <<>>

\* C8: when the adapter has failed on a batch the pass is over: the error is
\* a TranscriptionError, the pipeline is at its failed end with nothing
\* merged or formatted, and no step submits a batch afterwards.
C8_FailureAborts ==
  [][ /\ error' = "TranscriptionError" =>
           /\ pc' = "failed"
           /\ merged_segments' = <<>>
           /\ text_output' = <<>>
      /\ error = "TranscriptionError" =>
           /\ submitted' = submitted
           /\ transcribed_segments' = transcribed_segments
      /\ pc' = "failed" => error' = "TranscriptionError"
    ]_vars

\* A pass that failed on a later batch, after results had been collected.
C8_Witness ==
  /\ pc = "failed"
  /\ Len(submitted) >= 2
  /\ transcribed_segments # <<>>

\* C9: once the environment is loaded, bounds with min <= 0, max <= 0 or
\* min > max have stopped the program with a configuration error, so the
\* scheduler never runs with them.
C9_InvalidBoundsRejected ==
  (pc # "boot" /\ ~ValidBounds) => pc = "config_error"

\* Segment i is coalesced with its predecessor: same speaker, and a gap to
\* the predecessor's end of at most max_gap.
Coalesced(segs, i, gap) ==
  /\ segs[i].speaker = segs[i - 1].speaker
  /\ segs[i].start - segs[i - 1].end <= gap

\* The indexes at which an output segment starts.
RunStarts(segs, gap) ==
  {i \in 1..Len(segs) : i = 1 \/ ~Coalesced(segs, i, gap)}

\* The last index of the run that starts at a.
RunEnd(segs, gap, a) ==
  LET later == {i \in RunStarts(segs, gap) : i > a}
  IN  IF later = {} THEN Len(segs)
      ELSE (CHOOSE i \in later : \A j \in later : i <= j) - 1

RECURSIVE RunText(_, _, _)
RunText(segs, a, b) ==
  IF a = b THEN segs[a].text
  ELSE Strip(RunText(segs, a, b - 1)) \o <<" ">> \o Strip(segs[b].text)

\* The output the coalescing rule prescribes: one segment per run, from the
\* start of its first input segment to the end of its last.
RunsOutput(segs, gap) ==
  LET starts == RunStarts(segs, gap)
      n == Cardinality(starts)
      at == CHOOSE f \in [1..n -> starts] :
              \A j, k \in 1..n : j < k => f[j] < f[k]
  IN  [k \in 1..n |->
         Segment(segs[at[k]].start,
                 segs[RunEnd(segs, gap, at[k])].end,
                 RunText(segs, at[k], RunEnd(segs, gap, at[k])),
                 segs[at[k]].speaker)]

\* C10: over a start-sorted input, merge_segments coalesces a segment into
\* the accumulator exactly when the speaker is the same and the gap to the
\* accumulated end is <= max_gap, so its output is one segment per run of
\* coalesced inputs; [{0,1,hi,A},{1.5,2,there,A},{2,3,no,B}] with max_gap 2.0
\* gives [{0,2,"hi there",A},{2,3,no,B}].
C10_CoalesceRule ==
  pc \in {"format", "done"} =>
    /\ merged_segments = RunsOutput(transcribed_segments, max_gap)
    /\ (transcribed_segments = ScenarioSegments /\ max_gap = DefaultMaxGap) =>
         merged_segments =
           << Segment(0, 2000, <<"h", "i", " ", "t", "h", "e", "r", "e">>, "A"),
              Segment(2000, 3000, <<"n", "o">>, "B") >>

\* A merge that coalesced two segments whose gap is exactly max_gap and
\* kept a later one apart.
C10_Witness ==
  /\ pc = "format"
  /\ Len(transcribed_segments) = 3
  /\ Len(merged_segments) = 2
  /\ transcribed_segments[2].start - transcribed_segments[1].end = max_gap
  /\ transcribed_segments[2].speaker = transcribed_segments[1].speaker
  /\ merged_segments[1].end = transcribed_segments[2].end

\* cuts[k] is the index of the first input segment of output segment k:
\* the outputs are built from consecutive contiguous runs that cover the
\* input, and every input of a run carries the label of its output.
CoversBySpeaker(segs, out, cuts) ==
  /\ cuts[1] = 1
  /\ \A k \in 1..(Len(out) - 1) : cuts[k] < cuts[k + 1]
  /\ \A k \in 1..Len(out) :
       LET a == cuts[k]
           b == IF k = Len(out) THEN Len(segs) ELSE cuts[k + 1] - 1
       IN  /\ out[k].start = segs[a].start
           /\ out[k].end = segs[b].end
           /\ \A i \in a..b : segs[i].speaker = out[k].speaker

\* C11: each output segment of merge_segments is built from a contiguous
\* run of input segments that all carry the output's speaker label, and
\* every input segment belongs to exactly one output segment.
C11_SpeakerRuns ==
  pc \in {"format", "done"} =>
    IF transcribed_segments = <<>> THEN merged_segments = <<>>
    ELSE /\ Len(merged_segments) \in 1..Len(transcribed_segments)
         /\ \E cuts \in [1..Len(merged_segments)
                           -> 1..Len(transcribed_segments)] :
              CoversBySpeaker(transcribed_segments, merged_segments, cuts)

\* Two segments of different speakers, closer than max_gap, kept apart.
C11_Witness ==
  /\ pc = "format"
  /\ Len(transcribed_segments) = 2
  /\ transcribed_segments[1].speaker # transcribed_segments[2].speaker
  /\ transcribed_segments[2].start - transcribed_segments[1].end <= max_gap
  /\ Len(merged_segments) = 2

\* C12: merging the output of merge_segments again with the same max_gap
\* returns a list equal to it in starts, ends, speakers and texts.
C12_MergeIdempotent ==
  pc \in {"format", "done"} =>
    merge_segments(merged_segments, max_gap) = merged_segments

\* A merge that coalesced some of its input and left more than one segment.
C12_Witness ==
  /\ pc = "format"
  /\ Len(merged_segments) < Len(transcribed_segments)
  /\ Len(merged_segments) >= 2
  /\ merge_segments(merged_segments, max_gap) = merged_segments

NonDecreasingStart(segs) ==
  \A i \in 1..(Len(segs) - 1) : segs[i].start <= segs[i + 1].start

\* The elements of s that start at t, in their order in s.
StartingAt(s, t) ==
  LET At(x) == x.start = t
  IN  SelectSeq(s, At)

\* C13: the segments handed to the merger are in non-decreasing start
\* order, segments with equal starts in the order their chunks were
\* emitted, and the merged output is again in non-decreasing start order.
C13_SortedBeforeMerge ==
  /\ pc \in {"merge", "format", "done"} =>
       /\ NonDecreasingStart(transcribed_segments)
       /\ Len(transcribed_segments) = Len(enqueued)
       /\ \A k \in 1..Len(enqueued) :
            StartingAt(SegmentMetas(transcribed_segments), enqueued[k].meta.start)
              = StartingAt(Metas(enqueued), enqueued[k].meta.start)
  /\ pc \in {"format", "done"} => NonDecreasingStart(merged_segments)

\* A pass whose chunks were emitted out of start order, two different
\* chunks among them starting at the same time, now sorted for the merger.
C13_Witness ==
  /\ pc = "merge"
  /\ ValidBounds
  /\ ~NonDecreasingStart(Metas(enqueued))
  /\ \E j, k \in 1..Len(enqueued) :
       /\ j < k
       /\ enqueued[j].meta.start = enqueued[k].meta.start
       /\ enqueued[j].meta # enqueued[k].meta
  /\ NonDecreasingStart(transcribed_segments)

\* The position of the first segment of segs that carries the label.
FirstAppearance(segs, label) ==
  CHOOSE i \in 1..Len(segs) :
    /\ segs[i].speaker = label
    /\ \A j \in 1..(i - 1) : segs[j].speaker # label

\* The labels that have appeared up to position i.
LabelsUpTo(segs, i) == {segs[j].speaker : j \in 1..i}

\* C14: the formatter renders one block per merged segment, and the number
\* of a block's speaker is the count of distinct labels that have appeared
\* up to the first appearance of its label: labels map one-to-one onto
\* 1..k in order of first appearance, the same number at every occurrence.
C14_SpeakerNumbering ==
  pc = "done" =>
    /\ Len(text_output) = Len(merged_segments)
    /\ \A i \in 1..Len(merged_segments) :
         text_output[i].speaker =
           Cardinality(LabelsUpTo(merged_segments,
                                  FirstAppearance(merged_segments,
                                                  merged_segments[i].speaker)))
    /\ {text_output[i].speaker : i \in 1..Len(text_output)}
         = 1..Cardinality(LabelsUpTo(merged_segments, Len(merged_segments)))

\* A transcript of three speakers in which the first speaker speaks again
\* after the second.
C14_Witness ==
  /\ pc = "done"
  /\ merged_segments = ThreeSpeakerSegments
  /\ [i \in 1..4 |-> text_output[i].speaker] = <<1, 2, 1, 3>>

\* C15: after a flush of more audio than the overlap, the buffer kept for
\* the next round holds exactly the samples of 500 ms at the recorder's
\* sample rate, buffer_duration_ms is the real duration of those samples,
\* and everything earlier is discarded.
C15_OverlapRetained ==
  [][ (live_pc = "segments" /\ live_pc' = "loop"
         /\ buffer_duration_ms > overlap_ms)
        => /\ SumSeq(buffer') = (overlap_ms * sample_rate) \div 1000
           /\ buffer_duration_ms' * sample_rate = SumSeq(buffer') * 1000
    ]_vars

\* C16: the start and end times transcribe_live gives a segment (the times
\* transcribe_chunk returns and the loop yields) include the offset of the
\* audio processed before its buffer: no segment of a buffer carries a time
\* before the position in the recording at which that buffer begins.
C16_GlobalOffset ==
  \A k \in 1..Len(calls) :
    /\ calls[k].start_time >= calls[k].buffer_begin
    /\ calls[k].end_time >= calls[k].buffer_begin

\* C17: once stop_live_transcribe has carried out a stop, the step the
\* live loop takes at the top of its next iteration is to leave the loop and
\* stop the recorder; it takes no further chunk.
C17_StopEndsLoop ==
  [][ (stop_response # "none" /\ live_pc = "loop"
         /\ (live_pc' # live_pc \/ buffer' # buffer))
        => /\ live_pc' \notin {"loop", "flush", "segments"}
           /\ recorder' = "stopped"
    ]_vars

\* C18: stop_live_transcribe answers its caller with a stop outcome:
\* "stopped" when the stop operation ran within the stop timeout, and
\* "force_stopped", with is_running set to False, when it timed out.
C18_StopOutcome ==
  stop_pc = "answered" =>
    /\ stop_response \in {"stopped", "force_stopped"}
    /\ stop_response = "force_stopped" => is_running = <<FALSE>>
    /\ stop_response = "stopped" => is_running = <<>>

\* The events end with an error event followed by the close event, and no
\* transcription event comes after the first error event.
ErrorThenClose(events) ==
  /\ Len(events) >= 2
  /\ events[Len(events)] = "close"
  /\ events[Len(events) - 1] = "error"
  /\ \A i, j \in 1..Len(events) :
       (events[i] = "error" /\ i < j) => events[j] # "transcription"

\* C19: on both SSE endpoints, when the pipeline has failed after the
\* stream started, the finished stream ends with an error event followed by
\* the close event, no transcription event follows the error, and the
\* failure has not left the event generator.
C19_ErrorThenClose ==
  /\ (stream_pc \in {"closed", "escaped"} /\ producer_error # "none") =>
       /\ ErrorThenClose(stream_events)
       /\ stream_escaped = "none"
  /\ (live_pc = "closed" /\ live_error # "none") =>
       ErrorThenClose(live_events)

\* C20: when a turn shorter than min arrives while a pending segment of
\* another speaker exists, the iteration appends the pending segment as a
\* chunk if and only if its accumulated duration is at least
\* min_chunk_length, raises nothing, and leaves a new pending segment with
\* exactly the turn's start, end, duration and speaker.
C20_ShortTurnOtherSpeaker ==
  [][ (/\ pc = "loop"
       /\ idx' = idx + 1
       /\ current_segment # <<>>
       /\ DurationMs(diarization_segments[idx]) < min_chunk_length
       /\ current_segment[1].speaker # diarization_segments[idx].speaker)
        => LET turn == diarization_segments[idx]
               cur == current_segment[1]
           IN  /\ Metas(todo') =
                    IF cur.duration >= min_chunk_length
                    THEN << Chunk(cur.start_ms, cur.end_ms, cur.speaker) >>
                    ELSE <<>>
               /\ current_segment' =
                    << NewSegment(ToMs(turn.start), ToMs(turn.end),
                                  DurationMs(turn), turn.speaker) >>
               /\ pc' = "loop"
               /\ error' = "none"
    ]_vars

\* A short turn has flushed the pending segment of another speaker, which
\* had accumulated min_chunk_length, and is now the pending segment.
C20_Witness ==
  /\ pc = "loop"
  /\ ValidBounds
  /\ idx >= 3
  /\ LET turn == diarization_segments[idx - 1]
     IN  /\ DurationMs(turn) < min_chunk_length
         /\ current_segment =
              << NewSegment(ToMs(turn.start), ToMs(turn.end),
                            DurationMs(turn), turn.speaker) >>
         /\ \E k \in 1..Len(enqueued) :
              /\ enqueued[k].origin = "pending"
              /\ enqueued[k].turn = idx - 1
              /\ enqueued[k].duration >= min_chunk_length
              /\ enqueued[k].meta.speaker # turn.speaker

\* C21: at end-of-stream the pending segment is appended to the batch if and
\* only if one remains and its accumulated duration is at least
\* min_chunk_length; the last batch is then handed to the adapter if and only
\* if it is non-empty; when the pass has returned every appended chunk has
\* been submitted.
C21_EndOfStreamFlush ==
  [][ /\ (pc = "loop" /\ pc' = "final") =>
           /\ submitted' = submitted
           /\ IF /\ current_segment # <<>>
                 /\ current_segment[1].duration >= min_chunk_length
              THEN /\ Metas(enqueued') =
                        Append(Metas(enqueued),
                               Chunk(current_segment[1].start_ms,
                                     current_segment[1].end_ms,
                                     current_segment[1].speaker))
                   /\ batch_metadata' =
                        Append(batch_metadata, Last(Metas(enqueued')))
              ELSE enqueued' = enqueued /\ batch_metadata' = batch_metadata
      /\ (pc = "final" /\ pc' # "final") =>
           /\ enqueued' = enqueued
           /\ IF batch_metadata # <<>>
              THEN submitted' = Append(submitted, batch_metadata)
              ELSE submitted' = submitted /\ pc' = "sort"
           /\ pc' = "sort" => Metas(enqueued') = Flatten(submitted')
    ]_vars

\* The pass returned after a pending segment that had reached
\* min_chunk_length was flushed at end-of-stream into a batch of its own.
C21_Witness ==
  /\ pc = "sort"
  /\ ValidBounds
  /\ current_segment # <<>>
  /\ current_segment[1].duration >= min_chunk_length
  /\ Last(enqueued).origin = "final"
  /\ Last(submitted) = << Last(enqueued).meta >>

\* C22: both bounds are inclusive: a turn whose duration equals
\* min_chunk_length, and a turn whose duration equals max_chunk_length, is
\* appended as one chunk of its own that covers the whole turn; it is neither
\* accumulated into the pending segment nor split.
C22_InclusiveBounds ==
  \A i \in 1..Len(diarization_segments) :
    LET turn == diarization_segments[i]
    IN  (/\ TurnHandled(i)
         /\ \/ DurationMs(turn) = min_chunk_length
            \/ DurationMs(turn) = max_chunk_length)
          => /\ AppendsOf(i, "turn") =
                  << Chunk(ToMs(turn.start), ToMs(turn.end), turn.speaker) >>
             /\ AppendsOf(i, "split") = <<>>

\* The pending segment after the first i turns of the list and the turns
\* whose audio it holds: a turn joins it in the accumulating branch, starts
\* it afresh when it becomes the pending segment, and empties it otherwise.
RECURSIVE PendingAfter(_)
PendingAfter(i) ==
  IF i = 0
  THEN [current |-> <<>>, turns |-> {}]
  ELSE LET p == PendingAfter(i - 1)
           r == HandleTurn(p.current, diarization_segments[i])
       IN  [current |-> r.current,
            turns |-> IF r.current = <<>> THEN {}
                      ELSE IF r.accumulated THEN p.turns \cup {i}
                      ELSE {i}]

\* The turns whose audio the k-th appended chunk was built from: the turns of
\* the pending segment for a flush, the turn itself for a chunk cut from it.
BuiltFrom(k) ==
  IF enqueued[k].origin \in {"pending", "final"}
  THEN PendingAfter(enqueued[k].turn - 1).turns
  ELSE {enqueued[k].turn}

\* C23: at every point of a pass the turns accumulated into the pending
\* segment all carry the pending segment's speaker, and every chunk appended
\* to a batch, hence every chunk submitted, is tagged with the speaker of
\* every turn it was built from.
C23_SpeakerPreserved ==
  (Scheduling \/ Returned \/ pc = "failed") =>
    /\ current_segment = PendingAfter(idx - 1).current
    /\ \A t \in PendingAfter(idx - 1).turns :
         diarization_segments[t].speaker = current_segment[1].speaker
    /\ \A k \in 1..Len(enqueued) :
         /\ BuiltFrom(k) # {}
         /\ \A t \in BuiltFrom(k) :
              diarization_segments[t].speaker = enqueued[k].meta.speaker
    /\ \A b \in 1..Len(submitted) : \A j \in 1..Len(submitted[b]) :
         \E k \in 1..Len(enqueued) : enqueued[k].meta = submitted[b][j]

\* A chunk built from two accumulated turns has been submitted.
C23_Witness ==
  /\ pc = "sort"
  /\ ValidBounds
  /\ \E k \in 1..Len(enqueued) :
       /\ Cardinality(BuiltFrom(k)) >= 2
       /\ \E b \in 1..Len(submitted) : \E j \in 1..Len(submitted[b]) :
            submitted[b][j] = enqueued[k].meta

\* C24: the call of merge_segments leaves its argument as it was: the list
\* has the same length and order and every segment of it the same start,
\* end, text and speaker, also the segments merged into an output segment;
\* the list returned is built on objects of its own.
C24_ArgumentUntouched ==
  [][ pc = "merge" =>
        /\ transcribed_segments' = transcribed_segments
        /\ merged_segments' =
             merge_segments_call(transcribed_segments, max_gap).merged
    ]_vars

\* A call that merged its first two segments: the output's first segment
\* ends later and has a longer text than the argument's first segment.
C24_Witness ==
  /\ pc = "format"
  /\ Len(transcribed_segments) >= 2
  /\ Len(merged_segments) < Len(transcribed_segments)
  /\ merged_segments[1].end > transcribed_segments[1].end
  /\ merged_segments[1].text # transcribed_segments[1].text

\* C25: over a start-sorted input of segments with start <= end, every
\* output segment of merge_segments starts where the first segment merged
\* into it starts, ends no earlier than any segment merged into it, also one
\* nested inside an earlier one, and has start <= end.
C25_NeverShrinks ==
  (/\ pc \in {"format", "done"}
   /\ IsStartSorted(transcribed_segments)
   /\ \A i \in 1..Len(transcribed_segments) :
        transcribed_segments[i].start <= transcribed_segments[i].end)
    => /\ Len(merged_segments)
            = Cardinality(RunStarts(transcribed_segments, max_gap))
       /\ \A a \in RunStarts(transcribed_segments, max_gap) :
            LET k == Cardinality({s \in RunStarts(transcribed_segments, max_gap) :
                                    s <= a})
                b == RunEnd(transcribed_segments, max_gap, a)
            IN  /\ merged_segments[k].start = transcribed_segments[a].start
                /\ \A i \in a..b :
                     merged_segments[k].end >= transcribed_segments[i].end
                /\ merged_segments[k].start <= merged_segments[k].end

IsPrefix(s, t) == Len(s) <= Len(t) /\ s = SubSeq(t, 1, Len(s))

\* C26: for every turn list and batch_size, the chunks (start, end, speaker)
\* that _process_diarization_segments has transcribed when it returns are,
\* in order, the chunks the loop of hf_tts.py transcribes one by one under
\* the same environment; during the pass the chunks appended so far are a
\* prefix of that list.
C26_BatchedRefinesUnbatched ==
  LET hf == HfTranscribed(diarization_segments, envMax, envMin)
  IN  /\ pc = "sort" => SegmentMetas(transcribed_segments) = hf
      /\ pc = "final" => Flatten(submitted) \o batch_metadata = hf
      /\ pc = "loop" => IsPrefix(Metas(enqueued) \o Metas(todo), hf)
      /\ pc = "failed" => IsPrefix(Flatten(submitted), hf)

\* A pass with batch_size 2 returned three or more chunks, the last batch
\* a partial one, where the unbatched loop transcribes the same chunks.
C26_Witness ==
  /\ pc = "sort"
  /\ batch_size = 2
  /\ Len(submitted) = 2
  /\ Len(submitted[2]) = 1
  /\ Len(HfTranscribed(diarization_segments, envMax, envMin)) = 3

\* C27: under bounds 0 < min <= max, every turn of at least min_chunk_length
\* is appended exactly once, as one chunk of its own or as the windows of its
\* split, whatever the pending segment and the batch are when it arrives, and
\* is never put into the pending segment; when the pass returns, the chunks
\* appended are the chunks submitted.
C27_LongEnoughTurnKept ==
  ValidBounds =>
    /\ \A i \in 1..Len(diarization_segments) :
         LET turn == diarization_segments[i]
         IN  (TurnHandled(i) /\ DurationMs(turn) >= min_chunk_length) =>
               /\ IF DurationMs(turn) <= max_chunk_length
                  THEN /\ AppendsOf(i, "turn") =
                            << Chunk(ToMs(turn.start), ToMs(turn.end),
                                     turn.speaker) >>
                       /\ AppendsOf(i, "split") = <<>>
                  ELSE /\ TilesExactly(AppendsOf(i, "split"),
                                       ToMs(turn.start), ToMs(turn.end),
                                       max_chunk_length, turn.speaker)
                       /\ AppendsOf(i, "turn") = <<>>
               /\ i \notin PendingAfter(i).turns
    /\ pc = "sort" => Flatten(submitted) = Metas(enqueued)

\* A pass returned in which a turn of at least min_chunk_length arrived
\* while a segment was pending and after an earlier chunk was appended.
C27_Witness ==
  /\ pc = "sort"
  /\ ValidBounds
  /\ batch_size >= 2
  /\ \E i \in 2..Len(diarization_segments) :
       /\ DurationMs(diarization_segments[i]) >= min_chunk_length
       /\ PendingAfter(i - 1).current # <<>>
       /\ \E k \in 1..Len(enqueued) : enqueued[k].turn < i

\* C28: under bounds 0 < min <= max, every chunk appended to a batch, hence
\* every chunk submitted to the adapter, is a non-empty window with
\* start_ms < end_ms, also when a turn starts and ends in the same
\* millisecond and when a pending segment is flushed ahead of a normal or a
\* long turn.
C28_ChunkNonEmpty ==
  ValidBounds =>
    /\ \A k \in 1..Len(enqueued) :
         enqueued[k].meta.start < enqueued[k].meta.end
    /\ \A b \in 1..Len(submitted) : \A j \in 1..Len(submitted[b]) :
         submitted[b][j].start < submitted[b][j].end

\* The chunks the callback accepted that the loop has still to be given,
\* oldest first.
Undelivered == audio_queue \o callback

\* C29: the chunks the capture callback accepts while is_recording is true
\* reach the consumer loop once each and in the order of capture, also the
\* chunks captured during a flush: the chunks not yet delivered are queued in
\* capture order, and each read returns the oldest of them.  A read that
\* finds the queue empty returns None and changes neither buffer nor
\* buffer_duration_ms nor raises an error.  A callback that runs once
\* is_recording is false accepts and enqueues nothing.
C29_CaptureToConsumer ==
  /\ [](/\ Len(Undelivered) = captured - delivered
        /\ \A k \in 1..Len(Undelivered) : Undelivered[k].id = delivered + k)
  /\ [][ /\ delivered' # delivered =>
              /\ delivered' = delivered + 1
              /\ chunk' # <<>>
              /\ chunk'[1].id = delivered'
         /\ (live_pc = "loop" /\ audio_queue = <<>>) =>
              /\ buffer' = buffer
              /\ buffer_duration_ms' = buffer_duration_ms
              /\ delivered' = delivered
              /\ live_error' = live_error
              /\ (chunk' = chunk \/ chunk' = <<>>)
         /\ ~is_recording =>
              /\ captured' = captured
              /\ (callback' = callback \/ callback' = <<>>)
              /\ (callback = <<>> => audio_queue' = audio_queue)
     ]_vars

\* The loop was given a chunk captured during a flush, and a callback has
\* run after stop_recording cleared is_recording.
C29_Witness ==
  /\ chunk # <<>>
  /\ chunk[1].busy
  /\ dropped
  /\ ~is_recording

\* The transcription events sent so far.
Yielded(events) == Len(SelectSeq(events, LAMBDA e : e = "transcription"))

\* C30: whenever transcribe_live has been left after recording started, by
\* a diarization or transcription failure, by a keyboard interrupt or by the
\* close of the generator, recorder.stop_recording has been called exactly
\* once; it is never called twice, and no segment is yielded once it has
\* been called.
C30_RecorderReleased ==
  /\ [](/\ stop_calls <= 1
        /\ (/\ live_pc \in {"raised", "closing", "closed"}
            /\ recorder \notin {"none", "failed"})
             => /\ stop_calls = 1
                /\ recorder = "stopped"
                /\ ~is_recording)
  /\ [][ stop_calls >= 1 => Yielded(live_events') = Yielded(live_events) ]_vars

\* The stream was closed after a keyboard interrupt ended a loop that had
\* flushed a buffer, and the recorder is stopped.
C30_Witness ==
  /\ live_pc = "closed"
  /\ live_error = "none"
  /\ flushes >= 1
  /\ stop_calls = 1
  /\ recorder = "stopped"

====
